---- MODULE Spec2Model ----
(***************************************************************************)
(* A model of the 2-day-mlops repository:                                  *)
(*   - scripts/run_batch_inference.py   the batch-inference driver         *)
(*   - mlops/pipelines/iris_pipeline.py the pipeline builder and script    *)
(*   - projects/iris_classifier/src/train.py, evaluate.py, inference.py    *)
(*                                                                         *)
(* The managed platform (model registry, transform jobs, S3, the pipeline  *)
(* executor) is the environment.  Remote calls are modelled as returning;  *)
(* the only exceptions modelled are the ones the code raises or handles.   *)
(* Paths and S3 keys are sequences of path components.                     *)
(***************************************************************************)
EXTENDS Integers, Sequences, FiniteSets, TLC

VARIABLES
    \* ---- the model registry (platform) ----
    registry,       \* sequence of model packages, in creation order
    \* ---- scripts/run_batch_inference.py ----
    d_pc,           \* position of the driver's main()
    model_arn,      \* index into registry of the selected package, 0 = none
    test_file,      \* local path returned by create_test_data, <<>> = none
    input_key,      \* S3 key of the uploaded input, <<>> = none
    s3,             \* set of object keys in the default bucket
    job,            \* the transform job: [status, input], status "None" before submission
    response,       \* last describe_transform_job response
    status,         \* the driver's variable status
    sleeps,         \* number of time.sleep calls made (saturating at MaxSleeps)
    sleep_secs,     \* argument of the last time.sleep call, 0 before any
    output_key,     \* S3 key the driver downloads, <<>> = none
    downloaded,     \* "no" | "ok" | "failed" (exception caught at line 187)
    diag_printed,   \* the DEBUG INFO block (lines 192-222) was printed
    submits,        \* number of transformer.transform calls
    exitCode,       \* exit status of the driver process
    \* ---- mlops/pipelines/iris_pipeline.py ----
    p_pc,           \* position of the pipeline script's main()
    CI_RUN,         \* environment variable CI_RUN
    WAIT_FOR_COMPLETION, \* environment variable WAIT_FOR_COMPLETION
    pipeline,       \* the Pipeline object get_pipeline returned
    upserted,       \* the pipeline definition the platform holds
    upserts,        \* number of pipeline.upsert calls
    execution,      \* the platform's pipeline execution: status, parameters, step states
    starts,         \* number of pipeline.start calls
    waits,          \* number of execution.wait calls
    p_status,       \* the script's variable status (line 191)
    p_exit,         \* exit status of the pipeline script
    \* ---- projects/iris_classifier/src/train.py and inference.py ----
    t_pc,           \* position of the training script
    SM_MODEL_DIR,   \* environment variable SM_MODEL_DIR, <<>> = unset
    perm,           \* what the file system allows in each directory
    disk,           \* the model.joblib each directory holds, <<>> = none
    fitted,         \* the classifier model.fit produced
    model_dir,      \* the training script's variable model_dir
    t_exit,         \* exit status of the training script
    i_pc,           \* position of inference.py's model_fn
    i_model,        \* the model model_fn returned
    \* ---- projects/iris_classifier/src/evaluate.py ----
    e_pc,           \* position of the evaluation script
    channel,        \* the model channel: model.joblib and model.tar.gz
    e_model,        \* the script's variable model
    report,         \* content of evaluation.json in the output directory
    e_runs,         \* number of the current run of the script
    loads,          \* joblib.load calls of the current run
    extracts,       \* tar extractions of the current run
    writes,         \* reports written by the current run
    e_raised,       \* the exception that ended the current run, "" = none
    e_exit,         \* exit status of the current run
    history         \* per finished run: its extractions and the report it left

driverVars == <<d_pc, model_arn, test_file, input_key, s3, job, response, status,
                sleeps, sleep_secs, output_key, downloaded, diag_printed, submits,
                exitCode>>

pipelineVars == <<p_pc, CI_RUN, WAIT_FOR_COMPLETION, pipeline, upserted, upserts,
                  execution, starts, waits, p_status, p_exit>>

trainVars == <<t_pc, SM_MODEL_DIR, perm, disk, fitted, model_dir, t_exit, i_pc, i_model>>

evalVars == <<e_pc, channel, e_model, report, e_runs, loads, extracts, writes, e_raised,
              e_exit, history>>

notDriverVars == <<pipelineVars, trainVars, evalVars>>
notPipelineVars == <<driverVars, trainVars, evalVars>>

vars == <<registry, driverVars, pipelineVars, trainVars, evalVars>>

----------------------------------------------------------------------------
(* Bounds *)

MaxPackages == 2
MaxTimestamp == 2
MaxSleeps == 3
NumSamples == 3
MaxRuns == 2

----------------------------------------------------------------------------
(* The model registry *)

StagingGroup == "iris-classifier-staging"

Groups == {StagingGroup, "other-group"}

ApprovalStatuses == {"PendingManualApproval", "Approved", "Rejected"}

\* A package as the registry holds it.  byExternal records that an actor outside
\* this repository has set the approval status to "Approved" at some time.
PriorPackages ==
    {p \in [group : Groups, status : ApprovalStatuses, byExternal : BOOLEAN] :
        p.byExternal = (p.status = "Approved")}

RECURSIVE SeqsUpTo(_, _)
SeqsUpTo(S, n) ==
    IF n = 0 THEN {<<>>}
    ELSE LET shorter == SeqsUpTo(S, n - 1)
         IN  shorter \cup {Append(q, x) : q \in {r \in shorter : Len(r) = n - 1}, x \in S}

Registries == SeqsUpTo(PriorPackages, MaxPackages)

SetMax(S) == CHOOSE x \in S : \A y \in S : y <= x

ListModelPackagesAnyStatus(reg) ==
    LET hits == {i \in DOMAIN reg : reg[i].group = StagingGroup}
    IN  IF hits = {} THEN <<>> ELSE <<SetMax(hits)>>

\* list_model_packages(ModelPackageGroupName=..., ModelApprovalStatus='Approved',
\* SortBy='CreationTime', SortOrder='Descending', MaxResults=1)
ListModelPackages(reg) ==
    LET hits == {i \in DOMAIN reg :
                    /\ reg[i].group = StagingGroup
                    /\ reg[i].status = "Approved"}
    IN  IF hits = {} THEN <<>> ELSE <<SetMax(hits)>>

----------------------------------------------------------------------------
(* scripts/run_batch_inference.py *)

Running == -1
ExitSuccess == 0
ExitFailure == 1

PollInterval == 10

TerminalStatusesWithStopping == {"Completed", "Failed", "Stopped", "Stopping"}

\* line 140: status in ['Completed', 'Failed', 'Stopped']
TerminalStatuses == {"Completed", "Failed", "Stopped"}

NoJob == [status |-> "None", input |-> <<>>]
NoResponse == [TransformJobStatus |-> "None"]

Basename(path) == path[Len(path)]

\* line 47: the local file create_test_data writes
TempFile == <<"tmp", "batch_test_data.csv">>

\* line 85: f'batch-input/test-{timestamp}.csv'
InputKey(timestamp) == <<"batch-input", "test-" \o ToString(timestamp) \o ".csv">>

\* line 155: f"batch-output/{os.path.basename(test_file)}.out"
OutputKey(file) == <<"batch-output", Basename(file) \o ".out">>

\* The object a transform job writes under output_path 's3://bucket/batch-output/'
\* for one input object: the input object's name followed by ".out".
JobOutputKey(input) == <<"batch-output", Basename(input) \o ".out">>

SleepSecondsBackoff(n) == PollInterval * (n + 1)

\* line 144: time.sleep(10)
SleepSeconds(n) == PollInterval

Min(a, b) == IF a < b THEN a ELSE b

\* lines 59-62 and 17-30: model_arn = get_latest_prod_model()
GetLatestProdModel ==
    /\ UNCHANGED notDriverVars
    /\ d_pc = "get_model"
    /\ LET summaries == ListModelPackages(registry)
       IN  IF summaries = <<>>
           THEN /\ d_pc' = "raised"
                /\ exitCode' = ExitFailure
                /\ UNCHANGED model_arn
           ELSE /\ model_arn' = summaries[1]
                /\ d_pc' = "create_data"
                /\ UNCHANGED exitCode
    /\ UNCHANGED <<registry, test_file, input_key, s3, job, response, status, sleeps,
                   sleep_secs, output_key, downloaded, diag_printed, submits>>

\* lines 64-79: describe_model_package (printing only) and create_test_data
CreateTestData ==
    /\ UNCHANGED notDriverVars
    /\ d_pc = "create_data"
    /\ test_file' = TempFile
    /\ d_pc' = "upload"
    /\ UNCHANGED <<registry, model_arn, input_key, s3, job, response, status, sleeps,
                   sleep_secs, output_key, downloaded, diag_printed, submits, exitCode>>

\* lines 81-89: timestamp = int(time.time()); s3.upload_file(test_file, bucket, input_key)
UploadTestData ==
    /\ UNCHANGED notDriverVars
    /\ d_pc = "upload"
    /\ \E timestamp \in 1..MaxTimestamp :
          /\ input_key' = InputKey(timestamp)
          /\ s3' = s3 \cup {InputKey(timestamp)}
    /\ d_pc' = "transform"
    /\ UNCHANGED <<registry, model_arn, test_file, job, response, status, sleeps,
                   sleep_secs, output_key, downloaded, diag_printed, submits, exitCode>>

\* lines 91-131: transformer.transform(data=input_path, ..., wait=False)
StartTransform ==
    /\ UNCHANGED notDriverVars
    /\ d_pc = "transform"
    /\ job' = [status |-> "InProgress", input |-> input_key]
    /\ submits' = submits + 1
    /\ d_pc' = "poll"
    /\ UNCHANGED <<registry, model_arn, test_file, input_key, s3, response, status,
                   sleeps, sleep_secs, output_key, downloaded, diag_printed, exitCode>>

\* lines 133-142: one iteration of the loop up to the test of status
Poll ==
    /\ UNCHANGED notDriverVars
    /\ d_pc = "poll"
    /\ response' = [TransformJobStatus |-> job.status]
    /\ status' = job.status
    /\ d_pc' = IF job.status \in TerminalStatuses THEN "report" ELSE "sleep"
    /\ UNCHANGED <<registry, model_arn, test_file, input_key, s3, job, sleeps,
                   sleep_secs, output_key, downloaded, diag_printed, submits, exitCode>>

\* line 144: time.sleep(10), then the next iteration
Sleep ==
    /\ UNCHANGED notDriverVars
    /\ d_pc = "sleep"
    /\ sleep_secs' = SleepSeconds(sleeps)
    /\ sleeps' = Min(sleeps + 1, MaxSleeps)
    /\ d_pc' = "poll"
    /\ UNCHANGED <<registry, model_arn, test_file, input_key, s3, job, response, status,
                   output_key, downloaded, diag_printed, submits, exitCode>>

\* lines 146-156 and 191-222: the branch on status after the loop
Report ==
    /\ UNCHANGED notDriverVars
    /\ d_pc = "report"
    /\ IF status = "Completed"
       THEN /\ output_key' = OutputKey(test_file)
            /\ d_pc' = "download"
            /\ UNCHANGED <<diag_printed, exitCode>>
       ELSE /\ diag_printed' = TRUE
            \* main() returns; the process ends through line 226 with status 0
            /\ d_pc' = "done"
            /\ exitCode' = ExitSuccess
            /\ UNCHANGED output_key
    /\ UNCHANGED <<registry, model_arn, test_file, input_key, s3, job, response, status,
                   sleeps, sleep_secs, downloaded, submits>>

\* lines 158-189: s3.download_file(bucket, output_key, output_file) inside try/except
Download ==
    /\ UNCHANGED notDriverVars
    /\ d_pc = "download"
    /\ downloaded' = IF output_key \in s3 THEN "ok" ELSE "failed"
    /\ d_pc' = "done"
    /\ exitCode' = ExitSuccess
    /\ UNCHANGED <<registry, model_arn, test_file, input_key, s3, job, response, status,
                   sleeps, sleep_secs, output_key, diag_printed, submits>>

(* The platform's transform job *)

JobCompletes ==
    /\ UNCHANGED notDriverVars
    /\ job.status = "InProgress"
    /\ job' = [job EXCEPT !.status = "Completed"]
    /\ s3' = s3 \cup {JobOutputKey(job.input)}
    /\ UNCHANGED <<registry, d_pc, model_arn, test_file, input_key, response, status,
                   sleeps, sleep_secs, output_key, downloaded, diag_printed, submits,
                   exitCode>>

JobFails ==
    /\ UNCHANGED notDriverVars
    /\ job.status = "InProgress"
    /\ job' = [job EXCEPT !.status = "Failed"]
    /\ UNCHANGED <<registry, d_pc, model_arn, test_file, input_key, s3, response, status,
                   sleeps, sleep_secs, output_key, downloaded, diag_printed, submits,
                   exitCode>>

JobStopRequested ==
    /\ UNCHANGED notDriverVars
    /\ job.status = "InProgress"
    /\ job' = [job EXCEPT !.status = "Stopping"]
    /\ UNCHANGED <<registry, d_pc, model_arn, test_file, input_key, s3, response, status,
                   sleeps, sleep_secs, output_key, downloaded, diag_printed, submits,
                   exitCode>>

JobStopped ==
    /\ UNCHANGED notDriverVars
    /\ job.status = "Stopping"
    /\ job' = [job EXCEPT !.status = "Stopped"]
    /\ UNCHANGED <<registry, d_pc, model_arn, test_file, input_key, s3, response, status,
                   sleeps, sleep_secs, output_key, downloaded, diag_printed, submits,
                   exitCode>>

----------------------------------------------------------------------------
(* mlops/pipelines/iris_pipeline.py *)

Unset == "<unset>"

EnvValues == {Unset, "", "1"}

TruthyOrUnset(v) == v # ""

\* lines 182 and 188: if os.environ.get(NAME): the variable is set and not empty
Truthy(v) == v \notin {Unset, ""}

\* training_step.properties.ModelArtifacts.S3ModelArtifacts
ModelArtifacts(step) ==
    [step |-> step.name, property |-> "ModelArtifacts.S3ModelArtifacts"]

\* evaluation_step.properties.ProcessingOutputConfig.Outputs[name].S3Output.S3Uri
ProcessingOutput(step, name) ==
    [step |-> step.name, property |-> "ProcessingOutputConfig.Outputs." \o name]

\* lines 64-68
TrainingStep ==
    [name |-> "TrainModel", inputs |-> {}, outputs |-> {},
     approval_status |-> "", group_param |-> ""]

EvaluationStepFixedSource(training_step) ==
    [name |-> "EvaluateModel", inputs |-> {}, outputs |-> {"evaluation"},
     approval_status |-> "", group_param |-> ""]

\* lines 85-102
EvaluationStep(training_step) ==
    [name |-> "EvaluateModel",
     inputs |-> {ModelArtifacts(training_step)},
     outputs |-> {"evaluation"},
     approval_status |-> "", group_param |-> ""]

RegisterStepApproved(training_step, evaluation_step, model_group_param) ==
    [name |-> "RegisterModel",
     inputs |-> {ModelArtifacts(training_step),
                 ProcessingOutput(evaluation_step, "evaluation")},
     outputs |-> {},
     approval_status |-> "Approved",
     group_param |-> model_group_param]

\* lines 105-131
RegisterStep(training_step, evaluation_step, model_group_param) ==
    [name |-> "RegisterModel",
     inputs |-> {ModelArtifacts(training_step),
                 ProcessingOutput(evaluation_step, "evaluation")},
     outputs |-> {},
     approval_status |-> "PendingManualApproval",
     group_param |-> model_group_param]

\* lines 19-141: get_pipeline(region, role, images, model_group_name, pipeline_name)
GetPipeline(model_group_name, pipeline_name) ==
    LET training_step == TrainingStep
        evaluation_step == EvaluationStep(training_step)
        register_step == RegisterStep(training_step, evaluation_step, "ModelGroupName")
    IN  [name |-> pipeline_name,
         parameters |-> [ModelGroupName |-> model_group_name],
         steps |-> <<training_step, evaluation_step, register_step>>]

NoPipeline == [name |-> "", parameters |-> [ModelGroupName |-> ""], steps |-> <<>>]

NoExecution == [status |-> "None", ModelGroupName |-> "", steps |-> <<>>]

StepNames(definition) == {definition.steps[i].name : i \in DOMAIN definition.steps}

StepOf(definition, name) ==
    definition.steps[CHOOSE i \in DOMAIN definition.steps : definition.steps[i].name = name]

\* The steps whose properties a step's definition refers to
Deps(definition, name) == {r.step : r \in StepOf(definition, name).inputs}

\* lines 168-174: pipeline = get_pipeline(...), with the default names
PipelineBuild ==
    /\ p_pc = "get_pipeline"
    /\ pipeline' = GetPipeline(StagingGroup, "IrisPipeline")
    /\ p_pc' = "upsert"
    /\ UNCHANGED <<registry, notPipelineVars, CI_RUN, WAIT_FOR_COMPLETION, upserted,
                   upserts, execution, starts, waits, p_status, p_exit>>

\* lines 176-179: pipeline.upsert(role_arn=role)
PipelineUpsert ==
    /\ p_pc = "upsert"
    /\ upserted' = pipeline
    /\ upserts' = upserts + 1
    /\ p_pc' = "check_ci"
    /\ UNCHANGED <<registry, notPipelineVars, CI_RUN, WAIT_FOR_COMPLETION, pipeline,
                   execution, starts, waits, p_status, p_exit>>

\* lines 182 and 198-199: if os.environ.get("CI_RUN") ... else
PipelineCheckCI ==
    /\ p_pc = "check_ci"
    /\ IF Truthy(CI_RUN)
       THEN p_pc' = "start" /\ UNCHANGED p_exit
       ELSE p_pc' = "done" /\ p_exit' = ExitSuccess
    /\ UNCHANGED <<registry, notPipelineVars, CI_RUN, WAIT_FOR_COMPLETION, pipeline,
                   upserted, upserts, execution, starts, waits, p_status>>

\* lines 183-188: execution = pipeline.start(), then the test of WAIT_FOR_COMPLETION
PipelineStart ==
    /\ p_pc = "start"
    /\ execution' = [status |-> "Executing",
                     ModelGroupName |-> upserted.parameters.ModelGroupName,
                     steps |-> [n \in StepNames(upserted) |-> "NotStarted"]]
    /\ starts' = starts + 1
    /\ IF Truthy(WAIT_FOR_COMPLETION)
       THEN p_pc' = "wait" /\ UNCHANGED p_exit
       ELSE p_pc' = "done" /\ p_exit' = ExitSuccess
    /\ UNCHANGED <<registry, notPipelineVars, CI_RUN, WAIT_FOR_COMPLETION, pipeline,
                   upserted, upserts, waits, p_status>>

\* line 190: execution.wait(delay=30, max_attempts=60) returns: the execution has ended
PipelineWait ==
    /\ p_pc = "wait"
    /\ execution.status # "Executing"
    /\ waits' = waits + 1
    /\ p_pc' = "describe"
    /\ UNCHANGED <<registry, notPipelineVars, CI_RUN, WAIT_FOR_COMPLETION, pipeline,
                   upserted, upserts, execution, starts, p_status, p_exit>>

\* line 190: execution.wait gives up after max_attempts and raises
PipelineWaitTimeout ==
    /\ p_pc = "wait"
    /\ execution.status = "Executing"
    /\ waits' = waits + 1
    /\ p_pc' = "raised"
    /\ p_exit' = ExitFailure
    /\ UNCHANGED <<registry, notPipelineVars, CI_RUN, WAIT_FOR_COMPLETION, pipeline,
                   upserted, upserts, execution, starts, p_status>>

\* lines 191-197: status = execution.describe()['PipelineExecutionStatus']
PipelineDescribe ==
    /\ p_pc = "describe"
    /\ p_status' = execution.status
    /\ IF execution.status # "Succeeded"
       THEN p_pc' = "raised" /\ p_exit' = ExitFailure
       ELSE p_pc' = "done" /\ p_exit' = ExitSuccess
    /\ UNCHANGED <<registry, notPipelineVars, CI_RUN, WAIT_FOR_COMPLETION, pipeline,
                   upserted, upserts, execution, starts, waits>>

(* The platform executing the upserted definition *)

\* A step starts once every step its definition refers to has succeeded.
StepStarts(name) ==
    /\ execution.status = "Executing"
    /\ name \in DOMAIN execution.steps
    /\ execution.steps[name] = "NotStarted"
    /\ \A d \in Deps(upserted, name) : execution.steps[d] = "Succeeded"
    /\ execution' = [execution EXCEPT !.steps[name] = "Executing"]
    /\ UNCHANGED <<registry, notPipelineVars, p_pc, CI_RUN, WAIT_FOR_COMPLETION, pipeline,
                   upserted, upserts, starts, waits, p_status, p_exit>>

\* A step succeeds; the register step creates the model package.
StepSucceeds(name) ==
    /\ execution.status = "Executing"
    /\ name \in DOMAIN execution.steps
    /\ execution.steps[name] = "Executing"
    /\ LET steps == [execution.steps EXCEPT ![name] = "Succeeded"]
           step == StepOf(upserted, name)
       IN  /\ execution' =
                [execution EXCEPT
                    !.steps = steps,
                    !.status = IF \A n \in DOMAIN steps : steps[n] = "Succeeded"
                               THEN "Succeeded" ELSE "Executing"]
           /\ registry' =
                IF step.approval_status # ""
                THEN Append(registry, [group |-> execution[step.group_param],
                                       status |-> step.approval_status,
                                       byExternal |-> FALSE])
                ELSE registry
    /\ UNCHANGED <<notPipelineVars, p_pc, CI_RUN, WAIT_FOR_COMPLETION, pipeline,
                   upserted, upserts, starts, waits, p_status, p_exit>>

\* A step fails, and the execution with it.
StepFails(name) ==
    /\ execution.status = "Executing"
    /\ name \in DOMAIN execution.steps
    /\ execution.steps[name] = "Executing"
    /\ execution' = [execution EXCEPT !.steps[name] = "Failed", !.status = "Failed"]
    /\ UNCHANGED <<registry, notPipelineVars, p_pc, CI_RUN, WAIT_FOR_COMPLETION, pipeline,
                   upserted, upserts, starts, waits, p_status, p_exit>>

\* A person changes a package's approval status in the registry.
ExternalSetApproval(i, st) ==
    /\ i \in DOMAIN registry
    /\ registry[i].status # st
    /\ registry' = [registry EXCEPT
                       ![i].status = st,
                       ![i].byExternal = @ \/ st = "Approved"]
    /\ UNCHANGED <<driverVars, pipelineVars, trainVars, evalVars>>

AllStepNames == {"TrainModel", "EvaluateModel", "RegisterModel"}

----------------------------------------------------------------------------
(* The dataset, the classifiers and the metrics *)

NumClasses == 3

Classes == 0..(NumClasses - 1)

Samples == 1..NumSamples

\* load_iris(return_X_y=True): the labels y of the fixed dataset
y == [i \in Samples |-> (i - 1) % NumClasses]

\* A classifier is what it predicts on the dataset: y_pred = model.predict(X)
Models == [Samples -> Classes]

NoModel == <<>>

Predict(model) == model

Gcd(a, b) == CHOOSE d \in 1..a : /\ a % d = 0 /\ b % d = 0
                                 /\ \A e \in 1..a : (a % e = 0 /\ b % e = 0) => e <= d

RECURSIVE LcmUpTo(_)
LcmUpTo(n) == IF n <= 1 THEN 1 ELSE LET l == LcmUpTo(n - 1) IN (l * n) \div Gcd(l, n)

\* Metric values are exact fractions, held as multiples of 1 / MetricUnit.
MetricScale == LcmUpTo(2 * NumSamples)
MetricUnit == NumSamples * MetricScale

RECURSIVE SumOver(_, _)
SumOver(S, f) ==
    IF S = {} THEN 0
    ELSE LET x == CHOOSE x \in S : TRUE IN f[x] + SumOver(S \ {x}, f)

Support(c) == Cardinality({i \in Samples : y[i] = c})
Predicted(y_pred, c) == Cardinality({i \in Samples : y_pred[i] = c})
TruePositives(y_pred, c) == Cardinality({i \in Samples : y[i] = c /\ y_pred[i] = c})

\* accuracy_score(y, y_pred)
AccuracyScore(y_pred) ==
    Cardinality({i \in Samples : y[i] = y_pred[i]}) * MetricScale

\* precision_score(y, y_pred, average='weighted'); a class never predicted scores 0
PrecisionScore(y_pred) ==
    SumOver(Classes,
        [c \in Classes |->
            IF Predicted(y_pred, c) = 0 THEN 0
            ELSE Support(c) * TruePositives(y_pred, c)
                    * (MetricScale \div Predicted(y_pred, c))])

\* recall_score(y, y_pred, average='weighted')
RecallScore(y_pred) ==
    SumOver(Classes,
        [c \in Classes |->
            IF Support(c) = 0 THEN 0
            ELSE Support(c) * TruePositives(y_pred, c) * (MetricScale \div Support(c))])

\* f1_score(y, y_pred, average='weighted'): per class 2 tp / (support + predicted)
F1Score(y_pred) ==
    SumOver(Classes,
        [c \in Classes |->
            IF Support(c) + Predicted(y_pred, c) = 0 THEN 0
            ELSE Support(c) * 2 * TruePositives(y_pred, c)
                    * (MetricScale \div (Support(c) + Predicted(y_pred, c)))])

----------------------------------------------------------------------------
(* projects/iris_classifier/src/train.py and inference.py *)

UnsetDir == <<>>

\* train.py line 21: the default of SM_MODEL_DIR
DefaultModelDir == <<"", "opt", "ml", "model">>

\* train.py line 27: "./model"
FallbackModelDir == <<".", "model">>

ModelDirs == {DefaultModelDir, <<"", "mnt", "model">>, FallbackModelDir}

\* "ok": the directory can be created and written; "denied": os.makedirs raises
\* PermissionError; "readonly": the directory exists and cannot be written.
Permissions == {"ok", "denied", "readonly"}

\* os.environ.get("SM_MODEL_DIR", "/opt/ml/model")
ResolvedModelDir == IF SM_MODEL_DIR = UnsetDir THEN DefaultModelDir ELSE SM_MODEL_DIR

\* train.py lines 10-21: load the data, fit, read SM_MODEL_DIR
TrainFit ==
    /\ t_pc = "fit"
    /\ model_dir' = ResolvedModelDir
    /\ t_pc' = "makedirs"
    /\ UNCHANGED <<registry, driverVars, pipelineVars, evalVars, SM_MODEL_DIR, perm, disk,
                   fitted, t_exit, i_pc, i_model>>

\* train.py lines 23-30: os.makedirs(model_dir), with the fallback to ./model
TrainMakedirs ==
    /\ t_pc = "makedirs"
    /\ IF perm[model_dir] # "denied"
       THEN /\ t_pc' = "save"
            /\ UNCHANGED <<model_dir, t_exit>>
       ELSE IF perm[FallbackModelDir] # "denied"
            THEN /\ model_dir' = FallbackModelDir
                 /\ t_pc' = "save"
                 /\ UNCHANGED t_exit
            ELSE /\ model_dir' = FallbackModelDir
                 /\ t_pc' = "raised"
                 /\ t_exit' = ExitFailure
    /\ UNCHANGED <<registry, driverVars, pipelineVars, evalVars, SM_MODEL_DIR, perm, disk,
                   fitted, i_pc, i_model>>

\* train.py lines 32-37: joblib.dump(model, os.path.join(model_dir, "model.joblib"))
TrainSave ==
    /\ t_pc = "save"
    /\ IF perm[model_dir] = "ok"
       THEN /\ disk' = [disk EXCEPT ![model_dir] = fitted]
            /\ t_pc' = "done"
            /\ t_exit' = ExitSuccess
       ELSE /\ t_pc' = "raised"
            /\ t_exit' = ExitFailure
            /\ UNCHANGED disk
    /\ UNCHANGED <<registry, driverVars, pipelineVars, evalVars, SM_MODEL_DIR, perm, fitted,
                   model_dir, i_pc, i_model>>

\* inference.py lines 9-28: model_fn(model_dir), on the content of the training
\* job's SM_MODEL_DIR as the platform delivers it
ModelFn ==
    /\ t_pc = "done"
    /\ i_pc = "idle"
    /\ IF disk[ResolvedModelDir] = NoModel
       THEN i_pc' = "raised" /\ UNCHANGED i_model
       ELSE i_pc' = "loaded" /\ i_model' = disk[ResolvedModelDir]
    /\ UNCHANGED <<registry, driverVars, pipelineVars, evalVars, t_pc, SM_MODEL_DIR, perm,
                   disk, fitted, model_dir, t_exit>>

----------------------------------------------------------------------------
(* projects/iris_classifier/src/evaluate.py *)

NoTar == [exists |-> FALSE, member |-> NoModel]

Channels ==
    [joblib : Models \cup {NoModel},
     tar : {NoTar} \cup [exists : {TRUE}, member : Models \cup {NoModel}]]

NoReport == [metrics |-> <<>>]

ReportDictStamped(model) ==
    [metrics |->
        [name \in {"accuracy", "precision", "recall", "f1_score", "run"} |->
            [value |-> CASE name = "accuracy" -> AccuracyScore(Predict(model))
                         [] name = "precision" -> PrecisionScore(Predict(model))
                         [] name = "recall" -> RecallScore(Predict(model))
                         [] name = "f1_score" -> F1Score(Predict(model))
                         [] name = "run" -> e_runs]]]

\* lines 61-87: the report of a model on the fixed dataset
ReportDict(model) ==
    [metrics |->
        [name \in {"accuracy", "precision", "recall", "f1_score"} |->
            [value |-> CASE name = "accuracy" -> AccuracyScore(Predict(model))
                         [] name = "precision" -> PrecisionScore(Predict(model))
                         [] name = "recall" -> RecallScore(Predict(model))
                         [] name = "f1_score" -> F1Score(Predict(model))]]]

\* lines 54-55: tar.extractall(path=model_channel) writes the archive's members
ExtractAll(ch) ==
    [ch EXCEPT !.joblib = IF ch.tar.member # NoModel THEN ch.tar.member ELSE @]

\* lines 40-47: model = joblib.load(model_path)
EvalLoad ==
    /\ e_pc = "load"
    /\ loads' = loads + 1
    /\ IF channel.joblib # NoModel
       THEN e_model' = channel.joblib /\ e_pc' = "report"
       ELSE e_pc' = "fallback" /\ UNCHANGED e_model
    /\ UNCHANGED <<registry, driverVars, pipelineVars, trainVars, channel, report, e_runs,
                   extracts, writes, e_raised, e_exit, history>>

EvalFallbackNoExistsCheck ==
    /\ e_pc = "fallback"
    /\ extracts' = extracts + 1
    /\ IF channel.tar.exists
       THEN /\ channel' = ExtractAll(channel)
            /\ e_pc' = "reload"
            /\ UNCHANGED <<e_raised, e_exit>>
       ELSE /\ e_pc' = "raised"
            /\ e_raised' = "FileNotFoundError"
            /\ e_exit' = ExitFailure
            /\ UNCHANGED channel
    /\ UNCHANGED <<registry, driverVars, pipelineVars, trainVars, e_model, report, e_runs,
                   loads, writes, history>>

\* lines 47-56 and 58-59: the handler of FileNotFoundError up to the extraction
EvalFallback ==
    /\ e_pc = "fallback"
    /\ IF channel.tar.exists
       THEN /\ channel' = ExtractAll(channel)
            /\ extracts' = extracts + 1
            /\ e_pc' = "reload"
            /\ UNCHANGED <<e_raised, e_exit>>
       ELSE /\ e_pc' = "raised"
            /\ e_raised' = "FileNotFoundError"
            /\ e_exit' = ExitFailure
            /\ UNCHANGED <<channel, extracts>>
    /\ UNCHANGED <<registry, driverVars, pipelineVars, trainVars, e_model, report, e_runs,
                   loads, writes, history>>

\* line 57: model = joblib.load(model_path) inside the handler
EvalReload ==
    /\ e_pc = "reload"
    /\ loads' = loads + 1
    /\ IF channel.joblib # NoModel
       THEN /\ e_model' = channel.joblib
            /\ e_pc' = "report"
            /\ UNCHANGED <<e_raised, e_exit>>
       ELSE /\ e_pc' = "raised"
            /\ e_raised' = "FileNotFoundError"
            /\ e_exit' = ExitFailure
            /\ UNCHANGED e_model
    /\ UNCHANGED <<registry, driverVars, pipelineVars, trainVars, channel, report, e_runs,
                   extracts, writes, history>>

\* lines 61-98: predict, compute the metrics, write evaluation.json
EvalReport ==
    /\ e_pc = "report"
    /\ report' = ReportDict(e_model)
    /\ writes' = writes + 1
    /\ e_pc' = "done"
    /\ e_exit' = ExitSuccess
    /\ UNCHANGED <<registry, driverVars, pipelineVars, trainVars, channel, e_model, e_runs,
                   loads, extracts, e_raised, history>>

\* lines 9-12: the script is run again on the same channel and output directory
EvalRerun ==
    /\ e_pc \in {"done", "raised"}
    /\ e_runs < MaxRuns
    /\ history' = Append(history, [extracts |-> extracts, report |-> report])
    /\ e_runs' = e_runs + 1
    /\ e_pc' = "load"
    /\ e_model' = NoModel
    /\ loads' = 0
    /\ extracts' = 0
    /\ writes' = 0
    /\ e_raised' = ""
    /\ e_exit' = Running
    /\ UNCHANGED <<registry, driverVars, pipelineVars, trainVars, channel, report>>

----------------------------------------------------------------------------
(* Specifications *)

PipelineIdle ==
    /\ p_pc = "get_pipeline"
    /\ pipeline = NoPipeline
    /\ upserted = NoPipeline
    /\ upserts = 0
    /\ execution = NoExecution
    /\ starts = 0
    /\ waits = 0
    /\ p_status = "None"
    /\ p_exit = Running

DriverIdle ==
    /\ d_pc = "get_model"
    /\ model_arn = 0
    /\ test_file = <<>>
    /\ input_key = <<>>
    /\ job = NoJob
    /\ response = NoResponse
    /\ status = "None"
    /\ sleeps = 0
    /\ sleep_secs = 0
    /\ output_key = <<>>
    /\ downloaded = "no"
    /\ diag_printed = FALSE
    /\ submits = 0
    /\ exitCode = Running

TrainIdle ==
    /\ t_pc = "fit"
    /\ disk = [d \in ModelDirs |-> NoModel]
    /\ model_dir = UnsetDir
    /\ t_exit = Running
    /\ i_pc = "idle"
    /\ i_model = NoModel

TrainFixed ==
    /\ SM_MODEL_DIR = UnsetDir
    /\ perm = [d \in ModelDirs |-> "ok"]
    /\ fitted = y
    /\ TrainIdle

EvalIdle ==
    /\ e_pc = "load"
    /\ e_model = NoModel
    /\ report = NoReport
    /\ e_runs = 1
    /\ loads = 0
    /\ extracts = 0
    /\ writes = 0
    /\ e_raised = ""
    /\ e_exit = Running
    /\ history = <<>>

EvalFixed ==
    /\ channel = [joblib |-> NoModel, tar |-> NoTar]
    /\ EvalIdle

\* The bucket may already hold an object under the name the driver downloads.
InitDriver ==
    /\ registry \in Registries
    /\ s3 \in SUBSET {OutputKey(TempFile)}
    /\ DriverIdle
    /\ CI_RUN = Unset
    /\ WAIT_FOR_COMPLETION = Unset
    /\ PipelineIdle
    /\ TrainFixed
    /\ EvalFixed

DriverStep ==
    \/ GetLatestProdModel
    \/ CreateTestData
    \/ UploadTestData
    \/ StartTransform
    \/ Poll
    \/ Sleep
    \/ Report
    \/ Download

NextDriver ==
    \/ DriverStep
    \/ JobCompletes
    \/ JobFails
    \/ JobStopRequested
    \/ JobStopped

SpecDriver == InitDriver /\ [][NextDriver]_vars

\* The driver is a running single-threaded process: it keeps taking its next step.
FairSpecDriver == SpecDriver /\ WF_vars(DriverStep)

InitPipeline ==
    /\ registry \in Registries
    /\ s3 = {}
    /\ DriverIdle
    /\ CI_RUN \in EnvValues
    /\ WAIT_FOR_COMPLETION \in EnvValues
    /\ PipelineIdle
    /\ TrainFixed
    /\ EvalFixed

PipelineStep ==
    \/ PipelineBuild
    \/ PipelineUpsert
    \/ PipelineCheckCI
    \/ PipelineStart
    \/ PipelineWait
    \/ PipelineWaitTimeout
    \/ PipelineDescribe

NextPipeline ==
    \/ PipelineStep
    \/ \E name \in AllStepNames : StepStarts(name)
    \/ \E name \in AllStepNames : StepSucceeds(name)
    \/ \E name \in AllStepNames : StepFails(name)
    \/ \E i \in 1..(MaxPackages + 1), st \in ApprovalStatuses : ExternalSetApproval(i, st)
    \/ GetLatestProdModel

\* The pipeline script, the platform executing the pipeline, the registry and the
\* driver's model lookup.
SpecPipeline == InitPipeline /\ [][NextPipeline]_vars

InitTrain ==
    /\ registry = <<>>
    /\ s3 = {}
    /\ DriverIdle
    /\ CI_RUN = Unset
    /\ WAIT_FOR_COMPLETION = Unset
    /\ PipelineIdle
    /\ SM_MODEL_DIR \in {UnsetDir} \cup ModelDirs
    /\ perm \in [ModelDirs -> Permissions]
    /\ fitted \in Models
    /\ TrainIdle
    /\ EvalFixed

NextTrain ==
    \/ TrainFit
    \/ TrainMakedirs
    \/ TrainSave
    \/ ModelFn

\* The training script and the loading of its output by the inference container.
SpecTrain == InitTrain /\ [][NextTrain]_vars

InitEval ==
    /\ registry = <<>>
    /\ s3 = {}
    /\ DriverIdle
    /\ CI_RUN = Unset
    /\ WAIT_FOR_COMPLETION = Unset
    /\ PipelineIdle
    /\ TrainFixed
    /\ channel \in Channels
    /\ EvalIdle

NextEval ==
    \/ EvalLoad
    \/ EvalFallback
    \/ EvalReload
    \/ EvalReport
    \/ EvalRerun

\* Runs of the evaluation script on one model channel.
SpecEval == InitEval /\ [][NextEval]_vars

----------------------------------------------------------------------------
(* Properties of the batch driver *)

InLoop == {"poll", "sleep"}
AfterLoop == {"report", "download", "done"}

\* C1: the polling loop is left only by the poll step whose response carries
\* 'Completed', 'Failed' or 'Stopped'; on any other status the poll step goes on
\* to sleep; after the loop, status is one of the three and is the status of the
\* last response.
C1_LoopLeftOnlyOnTerminal ==
    /\ [](d_pc \in AfterLoop =>
            /\ status \in {"Completed", "Failed", "Stopped"}
            /\ status = response.TransformJobStatus)
    /\ [][(d_pc \in InLoop /\ d_pc' \notin InLoop) =>
            /\ d_pc = "poll"
            /\ response'.TransformJobStatus = job.status
            /\ job.status \in {"Completed", "Failed", "Stopped"}]_vars
    /\ [][(d_pc = "poll" /\ d_pc' # "poll"
             /\ job.status \notin {"Completed", "Failed", "Stopped"}) =>
            d_pc' = "sleep"]_vars

\* The loop was left on 'Stopped' after at least one non-terminal poll.
C1_Witness == d_pc = "report" /\ status = "Stopped" /\ sleeps >= 1

\* C2: when polling ends with 'Failed' or 'Stopped', the driver prints the
\* diagnostic block, ends with a non-zero exit status, and has submitted the job
\* exactly once.
C2_FailureExitsNonZero ==
    (d_pc = "done" /\ status \in {"Failed", "Stopped"}) =>
        /\ diag_printed
        /\ exitCode # 0
        /\ submits = 1

\* C9: every sleep lasts 10 seconds and is followed by a poll; a non-terminal poll
\* is followed by a sleep; inside the loop the driver can always take its next
\* step, however many polls it has made; it is past the loop only if the job's
\* status is terminal, and once the job's status is terminal it gets past the loop.
C9_PollsUntilTerminal ==
    /\ [][(d_pc = "sleep" /\ d_pc' # "sleep") =>
            (d_pc' = "poll" /\ sleep_secs' = 10)]_vars
    /\ [][(d_pc = "poll" /\ d_pc' # "poll"
             /\ status' \notin {"Completed", "Failed", "Stopped"}) =>
            d_pc' = "sleep"]_vars
    /\ [](d_pc \in InLoop => ENABLED DriverStep)
    /\ [](d_pc \in AfterLoop => job.status \in {"Completed", "Failed", "Stopped"})
    /\ (job.status \in {"Completed", "Failed", "Stopped"}) ~> (d_pc \in AfterLoop)

\* The driver polls again after MaxSleeps sleeps of 10 seconds, the job still running.
C9_Witness ==
    d_pc = "poll" /\ sleeps = MaxSleeps /\ sleep_secs = 10 /\ job.status = "InProgress"

\* C10: the driver computes a download key only after 'Completed', and the key is
\* the one the job writes for the uploaded input object.
C10_DownloadsJobOutput ==
    output_key # <<>> =>
        /\ status = "Completed"
        /\ output_key = JobOutputKey(input_key)

\* C11: with no 'Approved' package of group 'iris-classifier-staging' in the
\* registry the driver is at its lookup or has raised there with a failure exit,
\* and has uploaded no input, submitted no job and received no poll response; in
\* every run an upload follows a successful lookup, the submission follows the
\* upload of the job's input, and a poll response follows the submission.
C11_RaisesBeforeAnyMutation ==
    /\ (~\E i \in DOMAIN registry :
            /\ registry[i].group = "iris-classifier-staging"
            /\ registry[i].status = "Approved") =>
        /\ d_pc \in {"get_model", "raised"}
        /\ model_arn = 0
        /\ \A k \in s3 : k[1] # "batch-input"
        /\ input_key = <<>>
        /\ job = NoJob
        /\ submits = 0
        /\ response = NoResponse
    /\ d_pc = "raised" =>
        /\ exitCode = 1
        /\ ~\E i \in DOMAIN registry :
              /\ registry[i].group = "iris-classifier-staging"
              /\ registry[i].status = "Approved"
    /\ (input_key # <<>> \/ \E k \in s3 : k[1] = "batch-input") =>
        /\ model_arn # 0
        /\ registry[model_arn].status = "Approved"
        /\ input_key \in s3
    /\ job # NoJob => (submits = 1 /\ input_key # <<>> /\ job.input = input_key)
    /\ submits >= 1 => job # NoJob
    /\ (response # NoResponse \/ d_pc \in {"sleep", "report", "download", "done"}) =>
        job # NoJob

\* The lookup raised although the registry holds a staging package that is not approved.
C11_Witness ==
    /\ d_pc = "raised"
    /\ \E i \in DOMAIN registry :
          /\ registry[i].group = "iris-classifier-staging"
          /\ registry[i].status = "PendingManualApproval"


----------------------------------------------------------------------------
(* Properties of the pipeline *)

\* C3: the built pipeline has exactly the steps TrainModel, EvaluateModel and
\* RegisterModel; EvaluateModel takes TrainModel's model artifact, RegisterModel
\* takes that artifact and EvaluateModel's 'evaluation' output; in an execution
\* EvaluateModel has not started unless TrainModel has succeeded, and RegisterModel
\* has not started unless EvaluateModel has succeeded.
C3_ThreeStepsInDependencyOrder ==
    /\ pipeline # NoPipeline =>
        /\ [i \in DOMAIN pipeline.steps |-> pipeline.steps[i].name]
              = <<"TrainModel", "EvaluateModel", "RegisterModel">>
        /\ pipeline.steps[1].inputs = {}
        /\ pipeline.steps[2].inputs =
              {[step |-> "TrainModel", property |-> "ModelArtifacts.S3ModelArtifacts"]}
        /\ pipeline.steps[3].inputs =
              {[step |-> "TrainModel", property |-> "ModelArtifacts.S3ModelArtifacts"],
               [step |-> "EvaluateModel",
                property |-> "ProcessingOutputConfig.Outputs.evaluation"]}
    /\ execution.status # "None" =>
        /\ execution.steps["EvaluateModel"] # "NotStarted" =>
              execution.steps["TrainModel"] = "Succeeded"
        /\ execution.steps["RegisterModel"] # "NotStarted" =>
              execution.steps["EvaluateModel"] = "Succeeded"

\* The register step is running, after the two steps before it.
C3_Witness == execution.status = "Executing" /\ execution.steps["RegisterModel"] = "Executing"

\* C4: the build step changes nothing on the platform; the script upserts once,
\* before any start; it starts an execution only with CI_RUN set and waits only
\* with WAIT_FOR_COMPLETION set as well; with CI_RUN unset no script step touches
\* anything but the upserted definition.
C4_UpsertThenOptionalStart ==
    /\ [][(p_pc = "get_pipeline" /\ p_pc' # p_pc) =>
            UNCHANGED <<upserted, upserts, execution, starts, waits, registry>>]_vars
    /\ [][(CI_RUN = Unset /\ p_pc' # p_pc) =>
            UNCHANGED <<execution, starts, waits, registry>>]_vars
    /\ [](/\ upserts <= 1
          /\ p_pc \in {"check_ci", "start", "wait", "describe", "done"} => upserts = 1
          /\ starts >= 1 => (upserts = 1 /\ starts = 1 /\ CI_RUN # Unset)
          /\ execution.status # "None" => starts = 1
          /\ waits >= 1 =>
                (waits = 1 /\ starts = 1 /\ CI_RUN # Unset /\ WAIT_FOR_COMPLETION # Unset)
          /\ CI_RUN = Unset => (starts = 0 /\ waits = 0 /\ execution = NoExecution))

\* The script has upserted, started an execution and waited for it.
C4_Witness == p_pc = "describe" /\ upserts = 1 /\ starts = 1 /\ waits = 1

\* C5: a package enters the registry with status 'PendingManualApproval'; no step
\* of the scripts or of the pipeline execution changes a status; the driver
\* selects a package of group 'iris-classifier-staging' with status 'Approved';
\* so the selected package is one an external actor has approved.
C5_OnlyExternallyApprovedModelUsed ==
    /\ [][Len(registry') > Len(registry) =>
            registry'[Len(registry')].status = "PendingManualApproval"]_vars
    /\ [][(\E i \in DOMAIN registry : registry'[i].status # registry[i].status) =>
            UNCHANGED <<d_pc, p_pc, execution>>]_vars
    /\ [][model_arn' # model_arn =>
            /\ registry[model_arn'].group = "iris-classifier-staging"
            /\ registry[model_arn'].status = "Approved"]_vars
    /\ [](model_arn # 0 => registry[model_arn].byExternal)

\* The driver selected the package this pipeline execution registered.
C5_Witness ==
    /\ execution.status = "Succeeded"
    /\ model_arn = Len(registry)
    /\ model_arn # 0

----------------------------------------------------------------------------
(* Properties of the training and evaluation scripts *)

\* The report the previous run left in the output directory
PreviousReport == IF history = <<>> THEN NoReport ELSE history[Len(history)].report

\* The model a run of the evaluation script ends up loading from a channel
Loadable(ch) ==
    IF ch.joblib # NoModel THEN ch.joblib
    ELSE IF ch.tar.exists THEN ch.tar.member ELSE NoModel

\* C6: a run extracts at most once and loads at most twice, the second load only
\* after an extraction, an extraction only of an existing model.tar.gz; a run that
\* fails ends with FileNotFoundError, without extraction when model.tar.gz is
\* missing and after one extraction and a second load otherwise, and has written
\* no report.
C6_OneFallbackThenReraise ==
    /\ extracts <= 1
    /\ loads <= 2
    /\ extracts = 1 => channel.tar.exists
    /\ loads = 2 => extracts = 1
    /\ (e_pc = "done" /\ extracts = 1) => (loads = 2 /\ e_model = channel.tar.member)
    /\ e_pc = "raised" =>
        /\ e_raised = "FileNotFoundError"
        /\ channel.joblib = NoModel
        /\ writes = 0
        /\ report = PreviousReport
        /\ channel.tar.exists => (extracts = 1 /\ loads = 2)
        /\ ~channel.tar.exists => (extracts = 0 /\ loads = 1)

\* model.joblib is still missing after the extraction: the second load raised.
C6_Witness == e_pc = "raised" /\ extracts = 1 /\ loads = 2

\* C7: whenever training completes, model.joblib is in the directory SM_MODEL_DIR
\* names (default /opt/ml/model), so that model_fn finds it there.
C7_ModelInModelDir ==
    /\ t_pc = "done" => disk[ResolvedModelDir] = fitted
    /\ i_pc # "raised"

\* C8: a second successful run leaves the report the first run left, with the four
\* metric names, and no step of a run changes the model the channel yields.
C8_EvaluationIdempotent ==
    /\ [](e_pc = "done" =>
            DOMAIN report.metrics = {"accuracy", "precision", "recall", "f1_score"})
    /\ []((e_pc = "done" /\ e_runs >= 2) => report = PreviousReport)
    /\ [][Loadable(channel') = Loadable(channel)]_vars

\* The second run is done after a first run that took the extraction fallback.
C8_Witness == e_pc = "done" /\ e_runs = 2 /\ history[1].extracts = 1

====
